---- MODULE Spec2Model ----
(***************************************************************************)
(* nc-broadcast (src/src/main.rs): one growing byte buffer, appended by    *)
(* the stdin producer and by one file-tail producer per --input, replayed  *)
(* from byte 0 to every consumer (the optional tee and one thread per      *)
(* accepted TCP connection).                                               *)
(*                                                                         *)
(* Threads are interleaved at the points where they touch shared state:    *)
(* the RwLock around the buffer, the AtomicUsize `complete` and the        *)
(* Condvar of Notify.                                                      *)
(***************************************************************************)
EXTENDS Integers, Sequences, FiniteSets, TLC

\* ---------------------------------------------------------------- bounds
MaxBytes == 2      \* bytes all sources together deliver, at most
MaxThreads == 2    \* file producers and consumers started, at most
BufCap == 1        \* length of the buffer io::copy hands to read (scaled down)

MaxInputs == MaxThreads - 1
MaxConns == MaxThreads

Stdin == 0
Tee == 0
Files == 1..MaxInputs
Producers == {Stdin} \cup Files
Consumers == {Tee} \cup (1..MaxConns)

VARIABLES
    buffer,      \* Vec<u8> behind the RwLock
    complete,    \* AtomicUsize: producers registered and not done
    rdLock,      \* consumers holding a read guard of the RwLock
    mainPc,      \* position of main
    tee,         \* --tee given
    nInputs,     \* number of --input options
    inputIdx,    \* inputs main has gone through
    conns,       \* connections accepted
    ppc,         \* position of each producer thread
    chunk,       \* bytes a producer read from its source and has yet to write
    srcPos,      \* bytes each producer has read from its source
    cpc,         \* position of each consumer thread
    read_pos,    \* BroadcastPipe.read_pos of each consumer's handle
    want,        \* buf.len() of the read call in progress
    res,         \* value the last read call returned
    rbuf,        \* buf[0..res] after the last read call
    out          \* bytes written to the consumer's destination

vars == <<buffer, complete, rdLock, mainPc, tee, nInputs, inputIdx,
          conns, ppc, chunk, srcPos, cpc, read_pos, want, res, rbuf, out>>

sharedVars == <<buffer, complete, rdLock>>
mainVars == <<mainPc, tee, nInputs, inputIdx, conns>>
prodVars == <<ppc, chunk, srcPos>>
consVars == <<cpc, read_pos, want, res, rbuf, out>>

\* ---------------------------------------------------------------- helpers
Min(a, b) == IF a < b THEN a ELSE b

\* The i-th byte (1-based) producer p reads from its source.
SrcByte(p, i) == 10 * p + i

\* Bytes from+1 .. from+k of producer p's source.
SrcBytes(p, from, k) == [i \in 1..k |-> SrcByte(p, from + i)]

\* The consumer's thread has been spawned.
Born(c) == cpc[c] # "unborn"

\* Mutant of NotifyAll: notify_one, only the first blocked thread is woken.
NotifyOne(pcs) ==
    [c \in Consumers |->
        IF pcs[c] = "blocked" /\ \A d \in Consumers : d < c => pcs[d] # "blocked"
        THEN "lock"
        ELSE pcs[c]]

\* lines 17-19, Condvar::notify_all: every thread blocked in Condvar::wait is
\* woken, retakes and drops the mutex (line 15) and continues at line 66; a
\* thread not blocked at that moment is not affected.
NotifyAll(pcs) == [c \in Consumers |-> IF pcs[c] = "blocked" THEN "lock" ELSE pcs[c]]

\* Mutant of Clone: read_pos is copied, as a derived Clone would.
CloneKeepPos(pos) == pos

\* lines 38-47, Clone for BroadcastPipe: the read_pos of a handle cloned from
\* one whose read_pos is pos (buffer, ready and complete are shared).
Clone(pos) == 0

\* BroadcastPipe::new and main's locals before line 95.
Init ==
    /\ buffer = <<>>
    /\ complete = 0
    /\ rdLock = {}
    /\ mainPc = "reg_stdin"
    /\ tee \in BOOLEAN
    /\ nInputs \in 0..MaxInputs
    /\ inputIdx = 0
    /\ conns = 0
    /\ ppc = [p \in Producers |-> "unborn"]
    /\ chunk = [p \in Producers |-> <<>>]
    /\ srcPos = [p \in Producers |-> 0]
    /\ cpc = [c \in Consumers |-> "unborn"]
    /\ read_pos = [c \in Consumers |-> 0]
    /\ want = [c \in Consumers |-> BufCap]
    /\ res = [c \in Consumers |-> 0]
    /\ rbuf = [c \in Consumers |-> <<>>]
    /\ out = [c \in Consumers |-> <<>>]

\* ---------------------------------------------------------------- main
\* read_pos of main's read_pipe (line 96), the handle every consumer's handle
\* is cloned from; main never reads from it.
readPipePos == Clone(0)

\* line 95: pipe.complete.fetch_add(1)
MainRegStdin ==
    /\ mainPc = "reg_stdin"
    /\ complete' = complete + 1
    /\ mainPc' = "spawn_stdin"
    /\ UNCHANGED <<buffer, rdLock, tee, nInputs, inputIdx, conns>>
    /\ UNCHANGED <<prodVars, consVars>>

\* lines 96-101: read_pipe = pipe.clone(); thread::spawn(stdin producer)
MainSpawnStdin ==
    /\ mainPc = "spawn_stdin"
    /\ ppc' = [ppc EXCEPT ![Stdin] = "read"]
    /\ mainPc' = "inputs"
    /\ UNCHANGED <<sharedVars, tee, nInputs, inputIdx, conns, chunk, srcPos>>
    /\ UNCHANGED <<consVars>>

\* lines 103-110: next --input: pipe = read_pipe.clone(); complete.fetch_add(1)
MainRegFile ==
    /\ mainPc = "inputs"
    /\ inputIdx < nInputs
    /\ complete' = complete + 1
    /\ mainPc' = "spawn_file"
    /\ UNCHANGED <<buffer, rdLock, tee, nInputs, inputIdx, conns>>
    /\ UNCHANGED <<prodVars, consVars>>

\* line 111: thread::spawn(file producer)
MainSpawnFile ==
    /\ mainPc = "spawn_file"
    /\ inputIdx' = inputIdx + 1
    /\ ppc' = [ppc EXCEPT ![inputIdx + 1] = "setup"]
    /\ mainPc' = "inputs"
    /\ UNCHANGED <<sharedVars, tee, nInputs, conns, chunk, srcPos>>
    /\ UNCHANGED <<consVars>>

\* lines 103, 143-149: the inputs are exhausted; the tee consumer is spawned
\* when --tee is given; the listener is bound.
MainTee ==
    /\ mainPc = "inputs"
    /\ inputIdx = nInputs
    /\ cpc' = [cpc EXCEPT ![Tee] = IF tee THEN "entry" ELSE @]
    /\ read_pos' = [read_pos EXCEPT ![Tee] = IF tee THEN Clone(readPipePos) ELSE @]
    /\ mainPc' = "accept"
    /\ UNCHANGED <<sharedVars, tee, nInputs, inputIdx, conns>>
    /\ UNCHANGED <<prodVars, want, res, rbuf, out>>

\* lines 150-158: accept a connection, clone read_pipe, spawn
\* its consumer.
MainAccept ==
    /\ mainPc = "accept"
    /\ nInputs + (IF tee THEN 1 ELSE 0) + conns < MaxThreads
    /\ conns' = conns + 1
    /\ cpc' = [cpc EXCEPT ![conns + 1] = "entry"]
    /\ read_pos' = [read_pos EXCEPT ![conns + 1] = Clone(readPipePos)]
    /\ UNCHANGED <<sharedVars, mainPc, tee, nInputs, inputIdx>>
    /\ UNCHANGED <<prodVars, want, res, rbuf, out>>

\* ---------------------------------------------------------------- BroadcastPipe::write
\* Mutant of Write: the chunk is put in front of the buffer.
WritePrepend(p) ==
    /\ ppc[p] = "write"
    /\ rdLock = {}
    /\ buffer' = chunk[p] \o buffer
    /\ ppc' = [ppc EXCEPT ![p] = IF Len(chunk[p]) > 0 THEN "notify" ELSE "read"]
    /\ chunk' = [chunk EXCEPT ![p] = <<>>]
    /\ UNCHANGED <<complete, rdLock, srcPos>>
    /\ UNCHANGED <<mainVars, consVars>>

\* lines 49-55, called by io::copy's write_all with the chunk just read: the
\* write guard is taken (no reader holds the lock), Vec::write appends the
\* whole chunk, the guard is dropped; notify_all follows when res > 0.
Write(p) ==
    /\ ppc[p] = "write"
    /\ rdLock = {}
    /\ buffer' = buffer \o chunk[p]
    /\ ppc' = [ppc EXCEPT ![p] = IF Len(chunk[p]) > 0 THEN "notify" ELSE "read"]
    /\ chunk' = [chunk EXCEPT ![p] = <<>>]
    /\ UNCHANGED <<complete, rdLock, srcPos>>
    /\ UNCHANGED <<mainVars, consVars>>

\* line 52: self.ready.notify_all(), then Ok(res) back to io::copy's loop
WriteNotify(p) ==
    /\ ppc[p] = "notify"
    /\ cpc' = NotifyAll(cpc)
    /\ ppc' = [ppc EXCEPT ![p] = "read"]
    /\ UNCHANGED <<sharedVars, mainVars, chunk, srcPos>>
    /\ UNCHANGED <<read_pos, want, res, rbuf, out>>

\* ---------------------------------------------------------------- stdin producer
\* Bytes the producers have read from their sources so far.
RECURSIVE SumTo(_, _)
SumTo(f, n) == IF n < 0 THEN 0 ELSE f[n] + SumTo(f, n - 1)
TotalRead == SumTo(srcPos, MaxInputs)

\* line 98, io::copy: stdin yields k >= 1 bytes
StdinRead ==
    /\ ppc[Stdin] = "read"
    /\ \E k \in 1..(MaxBytes - TotalRead) :
         /\ chunk' = [chunk EXCEPT ![Stdin] = SrcBytes(Stdin, srcPos[Stdin], k)]
         /\ srcPos' = [srcPos EXCEPT ![Stdin] = @ + k]
    /\ ppc' = [ppc EXCEPT ![Stdin] = "write"]
    /\ UNCHANGED <<sharedVars, mainVars, consVars>>

\* line 98, io::copy: stdin reports end-of-file and copy returns Ok
StdinEof ==
    /\ ppc[Stdin] = "read"
    /\ ppc' = [ppc EXCEPT ![Stdin] = "sub"]
    /\ UNCHANGED <<sharedVars, mainVars, chunk, srcPos, consVars>>

\* Mutant of StdinError: the failing thread reports done before it ends.
StdinErrorDone ==
    /\ ppc[Stdin] = "read"
    /\ complete' = complete - 1
    /\ ppc' = [ppc EXCEPT ![Stdin] = "panicked"]
    /\ UNCHANGED <<buffer, rdLock, chunk, srcPos>>
    /\ UNCHANGED <<mainVars, consVars>>

\* line 98: the read of stdin fails, unwrap panics, the thread ends
StdinError ==
    /\ ppc[Stdin] = "read"
    /\ ppc' = [ppc EXCEPT ![Stdin] = "panicked"]
    /\ UNCHANGED <<sharedVars, mainVars, chunk, srcPos, consVars>>

\* Mutant of StdinDone: completion is stored as a flag, whatever the count.
StdinDoneStore ==
    /\ ppc[Stdin] = "sub"
    /\ complete' = 0
    /\ ppc' = [ppc EXCEPT ![Stdin] = "fin_notify"]
    /\ UNCHANGED <<buffer, rdLock, chunk, srcPos>>
    /\ UNCHANGED <<mainVars, consVars>>

\* line 99: pipe.complete.fetch_sub(1)
StdinDone ==
    /\ ppc[Stdin] = "sub"
    /\ complete' = complete - 1
    /\ ppc' = [ppc EXCEPT ![Stdin] = "fin_notify"]
    /\ UNCHANGED <<buffer, rdLock, chunk, srcPos>>
    /\ UNCHANGED <<mainVars, consVars>>

\* Mutant of StdinDoneNotify: the thread goes back to copying, as a tailing
\* producer does.
StdinDoneNotifyResume ==
    /\ ppc[Stdin] = "fin_notify"
    /\ cpc' = NotifyAll(cpc)
    /\ ppc' = [ppc EXCEPT ![Stdin] = "read"]
    /\ UNCHANGED <<sharedVars, mainVars, chunk, srcPos>>
    /\ UNCHANGED <<read_pos, want, res, rbuf, out>>

\* line 100: pipe.ready.notify_all(); the thread ends
StdinDoneNotify ==
    /\ ppc[Stdin] = "fin_notify"
    /\ cpc' = NotifyAll(cpc)
    /\ ppc' = [ppc EXCEPT ![Stdin] = "done"]
    /\ UNCHANGED <<sharedVars, mainVars, chunk, srcPos>>
    /\ UNCHANGED <<read_pos, want, res, rbuf, out>>

\* ---------------------------------------------------------------- file producer
\* lines 113-121: Inotify::init, the CREATE watch on the parent directory,
\* and input_path.exists(), which the environment decides
FileSetup(f) ==
    /\ ppc[f] = "setup"
    /\ \E exists \in BOOLEAN :
         ppc' = [ppc EXCEPT ![f] = IF exists THEN "open" ELSE "wait_create"]
    /\ UNCHANGED <<sharedVars, mainVars, chunk, srcPos, consVars>>

\* lines 113-120: init or add_watch fails, unwrap panics, the thread ends
FileSetupError(f) ==
    /\ ppc[f] = "setup"
    /\ ppc' = [ppc EXCEPT ![f] = "panicked"]
    /\ UNCHANGED <<sharedVars, mainVars, chunk, srcPos, consVars>>

\* lines 122-129: read_events_blocking returns one batch of CREATE events of
\* the parent directory; the for loop ends at the event naming the target
\* (named) or at the end of a batch that does not name it. Either way line
\* 131 follows.
FileCreateEvents(f) ==
    /\ ppc[f] = "wait_create"
    /\ \E named \in BOOLEAN :
         ppc' = [ppc EXCEPT ![f] = IF named THEN "open" ELSE "open_unseen"]
    /\ UNCHANGED <<sharedVars, mainVars, chunk, srcPos, consVars>>

\* lines 131-136: rm_watch, File::open, the MODIFY watch on the file. A
\* file seen to exist opens; one never seen opens only when it was created
\* in the meantime, else unwrap panics.
FileOpen(f) ==
    /\ ppc[f] \in {"open", "open_unseen"}
    /\ \E created \in BOOLEAN :
         ppc' = [ppc EXCEPT ![f] =
                   IF ppc[f] = "open" \/ created THEN "read" ELSE "panicked"]
    /\ UNCHANGED <<sharedVars, mainVars, chunk, srcPos, consVars>>

\* lines 123-139: any of the calls whose result is unwrapped fails (reading
\* the events, rm_watch, File::open, get_buffer_size, add_watch, the read of
\* the file inside io::copy), the panic ends the thread
FileError(f) ==
    /\ ppc[f] \in {"wait_create", "open", "open_unseen", "read", "wait_modify"}
    /\ ppc' = [ppc EXCEPT ![f] = "panicked"]
    /\ UNCHANGED <<sharedVars, mainVars, chunk, srcPos, consVars>>

\* line 138, io::copy: the file yields k >= 1 bytes past the producer's offset
FileRead(f) ==
    /\ ppc[f] = "read"
    /\ \E k \in 1..(MaxBytes - TotalRead) :
         /\ chunk' = [chunk EXCEPT ![f] = SrcBytes(f, srcPos[f], k)]
         /\ srcPos' = [srcPos EXCEPT ![f] = @ + k]
    /\ ppc' = [ppc EXCEPT ![f] = "write"]
    /\ UNCHANGED <<sharedVars, mainVars, consVars>>

\* Mutant of FileEof: the end of the file counts as the end of the source.
FileEofDone(f) ==
    /\ ppc[f] = "read"
    /\ complete' = complete - 1
    /\ ppc' = [ppc EXCEPT ![f] = "done"]
    /\ UNCHANGED <<buffer, rdLock, mainVars, chunk, srcPos, consVars>>

\* line 138, io::copy: the file is at its end, copy returns; line 139 follows
FileEof(f) ==
    /\ ppc[f] = "read"
    /\ ppc' = [ppc EXCEPT ![f] = "wait_modify"]
    /\ UNCHANGED <<sharedVars, mainVars, chunk, srcPos, consVars>>

\* line 139: read_events_blocking returns MODIFY events of the file
FileModified(f) ==
    /\ ppc[f] = "wait_modify"
    /\ ppc' = [ppc EXCEPT ![f] = "read"]
    /\ UNCHANGED <<sharedVars, mainVars, chunk, srcPos, consVars>>

\* ---------------------------------------------------------------- BroadcastPipe::read
\* Mutant of Count: everything available, whatever the destination's length.
CountAll(c) == Len(buffer) - read_pos[c]

\* line 67: count = min(buf.len(), internal_buffer.len() - self.read_pos)
Count(c) == Min(want[c], Len(buffer) - read_pos[c])

\* Mutant of MustWait: a caught-up read returns zero at once.
MustWaitNever(c) == FALSE

\* line 68: the condition under which read waits instead of returning
MustWait(c) == Count(c) = 0 /\ complete > 0

\* Mutant of Copied: the slice is taken from the start of the buffer.
CopiedFromStart(c) == SubSeq(buffer, 1, Count(c))

\* lines 73-74: the slice copied into buf[0..count]
Copied(c) == SubSeq(buffer, read_pos[c] + 1, read_pos[c] + Count(c))

\* Mutant of ReadEntry: no test of buf.len().
ReadEntryNoZeroCheck(c) ==
    /\ cpc[c] = "entry"
    /\ cpc' = [cpc EXCEPT ![c] = "check"]
    /\ rdLock' = rdLock \cup {c}
    /\ UNCHANGED <<buffer, complete, mainVars, prodVars>>
    /\ UNCHANGED <<read_pos, want, res, rbuf, out>>

\* lines 62-66: if buf.len() == 0 { return Ok(0) }; otherwise the first
\* pass of the loop takes the read guard (appends hold the write guard for
\* one step only, so the guard is always granted)
ReadEntry(c) ==
    /\ cpc[c] = "entry"
    /\ IF want[c] = 0
       THEN /\ cpc' = [cpc EXCEPT ![c] = "ret"]
            /\ res' = [res EXCEPT ![c] = 0]
            /\ rbuf' = [rbuf EXCEPT ![c] = <<>>]
            /\ UNCHANGED rdLock
       ELSE /\ cpc' = [cpc EXCEPT ![c] = "check"]
            /\ rdLock' = rdLock \cup {c}
            /\ UNCHANGED <<res, rbuf>>
    /\ UNCHANGED <<buffer, complete, mainVars, prodVars>>
    /\ UNCHANGED <<read_pos, want, out>>

\* lines 71, 66: continue; the next pass of the loop takes the read guard
ReadLock(c) ==
    /\ cpc[c] = "lock"
    /\ rdLock' = rdLock \cup {c}
    /\ cpc' = [cpc EXCEPT ![c] = "check"]
    /\ UNCHANGED <<buffer, complete, mainVars, prodVars>>
    /\ UNCHANGED <<read_pos, want, res, rbuf, out>>

\* Mutant of ReadCheck: line 69 is missing, the guard is held while waiting.
ReadCheckKeepGuard(c) ==
    /\ cpc[c] = "check"
    /\ IF MustWait(c)
       THEN /\ cpc' = [cpc EXCEPT ![c] = "wait"]
            /\ UNCHANGED <<rdLock, read_pos, res, rbuf>>
       ELSE /\ rdLock' = rdLock \ {c}
            /\ rbuf' = [rbuf EXCEPT ![c] = Copied(c)]
            /\ read_pos' = [read_pos EXCEPT ![c] = @ + Count(c)]
            /\ res' = [res EXCEPT ![c] = Count(c)]
            /\ cpc' = [cpc EXCEPT ![c] = "ret"]
    /\ UNCHANGED <<buffer, complete, mainVars, prodVars>>
    /\ UNCHANGED <<want, out>>

\* Mutant of ReadCheck: line 75 assigns count to read_pos instead of adding.
ReadCheckRewind(c) ==
    /\ cpc[c] = "check"
    /\ rdLock' = rdLock \ {c}
    /\ IF MustWait(c)
       THEN /\ cpc' = [cpc EXCEPT ![c] = "wait"]
            /\ UNCHANGED <<read_pos, res, rbuf>>
       ELSE /\ rbuf' = [rbuf EXCEPT ![c] = Copied(c)]
            /\ read_pos' = [read_pos EXCEPT ![c] = Count(c)]
            /\ res' = [res EXCEPT ![c] = Count(c)]
            /\ cpc' = [cpc EXCEPT ![c] = "ret"]
    /\ UNCHANGED <<buffer, complete, mainVars, prodVars>>
    /\ UNCHANGED <<want, out>>

\* lines 67-76, under the read guard: either drop the guard and go on to
\* wait (69-70), or copy count bytes, advance read_pos and return, which
\* drops the guard.
ReadCheck(c) ==
    /\ cpc[c] = "check"
    /\ rdLock' = rdLock \ {c}
    /\ IF MustWait(c)
       THEN /\ cpc' = [cpc EXCEPT ![c] = "wait"]
            /\ UNCHANGED <<read_pos, res, rbuf>>
       ELSE /\ rbuf' = [rbuf EXCEPT ![c] = Copied(c)]
            /\ read_pos' = [read_pos EXCEPT ![c] = @ + Count(c)]
            /\ res' = [res EXCEPT ![c] = Count(c)]
            /\ cpc' = [cpc EXCEPT ![c] = "ret"]
    /\ UNCHANGED <<buffer, complete, mainVars, prodVars>>
    /\ UNCHANGED <<want, out>>

\* ---------------------------------------------------------------- Notify::wait
\* lines 14-16: the thread locks Notify's mutex and Condvar::wait releases
\* it and blocks, in one step: the mutex guards no data and notify_all
\* never takes it, so holding it excludes nothing but another waiter's own
\* lock or wake-up, each of which ends by itself.
Wait(c) ==
    /\ cpc[c] = "wait"
    /\ cpc' = [cpc EXCEPT ![c] = "blocked"]
    /\ UNCHANGED <<sharedVars, mainVars, prodVars>>
    /\ UNCHANGED <<read_pos, want, res, rbuf, out>>

\* Condvar::wait may return without any notify (std documents spurious
\* wake-ups); the thread goes on as after a notify
SpuriousWake(c) ==
    /\ cpc[c] = "blocked"
    /\ cpc' = [cpc EXCEPT ![c] = "lock"]
    /\ UNCHANGED <<sharedVars, mainVars, prodVars>>
    /\ UNCHANGED <<read_pos, want, res, rbuf, out>>

\* ---------------------------------------------------------------- consumers
\* lines 146, 154, io::copy: read returned res > 0 bytes and write_all puts
\* them on the destination; the next read is called with the whole buffer
DestWrite(c) ==
    /\ cpc[c] = "ret"
    /\ res[c] > 0
    /\ out' = [out EXCEPT ![c] = @ \o rbuf[c]]
    /\ rbuf' = [rbuf EXCEPT ![c] = <<>>]
    /\ res' = [res EXCEPT ![c] = 0]
    /\ want' = [want EXCEPT ![c] = BufCap]
    /\ cpc' = [cpc EXCEPT ![c] = "entry"]
    /\ UNCHANGED <<sharedVars, mainVars, prodVars, read_pos>>

\* Mutant of DestFail: the panic takes the whole process down.
DestFailAbort(c) ==
    /\ cpc[c] = "ret"
    /\ res[c] > 0
    /\ cpc' = [d \in Consumers |-> IF Born(d) THEN "panicked" ELSE cpc[d]]
    /\ ppc' = [p \in Producers |-> IF ppc[p] = "unborn" THEN ppc[p] ELSE "panicked"]
    /\ UNCHANGED <<sharedVars, mainVars, chunk, srcPos>>
    /\ UNCHANGED <<read_pos, want, res, rbuf, out>>

\* lines 146, 154: the destination fails after taking k < res bytes, unwrap
\* panics, the thread ends and drops its buffer
DestFail(c) ==
    /\ cpc[c] = "ret"
    /\ res[c] > 0
    /\ \E k \in 0..(res[c] - 1) : out' = [out EXCEPT ![c] = @ \o SubSeq(rbuf[c], 1, k)]
    /\ rbuf' = [rbuf EXCEPT ![c] = <<>>]
    /\ res' = [res EXCEPT ![c] = 0]
    /\ cpc' = [cpc EXCEPT ![c] = "panicked"]
    /\ UNCHANGED <<sharedVars, mainVars, prodVars>>
    /\ UNCHANGED <<read_pos, want>>

\* lines 146, 154-156, io::copy: the read it called, with its own non-empty
\* buffer, returned 0, copy returns Ok; the connection is shut down and the
\* thread ends
CopyEnd(c) ==
    /\ cpc[c] = "ret"
    /\ want[c] = BufCap
    /\ res[c] = 0
    /\ cpc' = [cpc EXCEPT ![c] = "done"]
    /\ UNCHANGED <<sharedVars, mainVars, prodVars>>
    /\ UNCHANGED <<read_pos, want, res, rbuf, out>>

\* ---------------------------------------------------------------- specification
Next ==
    \/ MainRegStdin
    \/ MainSpawnStdin
    \/ MainRegFile
    \/ MainSpawnFile
    \/ MainTee
    \/ MainAccept
    \/ StdinRead
    \/ StdinEof
    \/ StdinError
    \/ StdinDone
    \/ StdinDoneNotify
    \/ \E p \in Producers : Write(p)
    \/ \E p \in Producers : WriteNotify(p)
    \/ \E f \in Files : FileSetup(f)
    \/ \E f \in Files : FileSetupError(f)
    \/ \E f \in Files : FileCreateEvents(f)
    \/ \E f \in Files : FileOpen(f)
    \/ \E f \in Files : FileError(f)
    \/ \E f \in Files : FileRead(f)
    \/ \E f \in Files : FileEof(f)
    \/ \E f \in Files : FileModified(f)
    \/ \E c \in Consumers : ReadEntry(c)
    \/ \E c \in Consumers : ReadLock(c)
    \/ \E c \in Consumers : ReadCheck(c)
    \/ \E c \in Consumers : Wait(c)
    \/ \E c \in Consumers : SpuriousWake(c)
    \/ \E c \in Consumers : DestWrite(c)
    \/ \E c \in Consumers : DestFail(c)
    \/ \E c \in Consumers : CopyEnd(c)

Spec == Init /\ [][Next]_vars

\* ---------------------------------------------------------------- the handle's interface
\* line 61: a caller hands read a destination of length zero
CallEmpty(c) ==
    /\ cpc[c] = "entry"
    /\ want[c] # 0
    /\ want' = [want EXCEPT ![c] = 0]
    /\ UNCHANGED <<sharedVars, mainVars, prodVars>>
    /\ UNCHANGED <<cpc, read_pos, res, rbuf, out>>

\* line 63: the zero-length read has returned Ok(0) to its caller, which
\* goes on to read as before
EmptyReturned(c) ==
    /\ cpc[c] = "ret"
    /\ want[c] = 0
    /\ want' = [want EXCEPT ![c] = BufCap]
    /\ cpc' = [cpc EXCEPT ![c] = "entry"]
    /\ UNCHANGED <<sharedVars, mainVars, prodVars>>
    /\ UNCHANGED <<read_pos, res, rbuf, out>>

\* line 49: a caller hands write an empty buf; Write then appends nothing
\* and, res being 0, skips line 52
CallWriteEmpty(p) ==
    /\ ppc[p] = "read"
    /\ ppc' = [ppc EXCEPT ![p] = "write"]
    /\ UNCHANGED <<sharedVars, mainVars, chunk, srcPos, consVars>>

Live(c) == cpc[c] \notin {"unborn", "done", "panicked"}

\* lines 38-47: a handle is cloned from a handle that has been read from,
\* and a consumer is started on the clone
CloneFrom(src) ==
    /\ mainPc = "accept"
    /\ nInputs + (IF tee THEN 1 ELSE 0) + conns < MaxThreads
    /\ Live(src)
    /\ conns' = conns + 1
    /\ cpc' = [cpc EXCEPT ![conns + 1] = "entry"]
    /\ read_pos' = [read_pos EXCEPT ![conns + 1] = Clone(read_pos[src])]
    /\ UNCHANGED <<sharedVars, mainPc, tee, nInputs, inputIdx>>
    /\ UNCHANGED <<prodVars, want, res, rbuf, out>>

NextApi ==
    \/ Next
    \/ \E c \in Consumers : CallEmpty(c)
    \/ \E c \in Consumers : EmptyReturned(c)
    \/ \E c \in Consumers : CloneFrom(c)

\* The program, with read and clone also called as any user of the handle may.
ApiSpec == Init /\ [][NextApi]_vars

NextWriteApi ==
    \/ Next
    \/ \E p \in Producers : CallWriteEmpty(p)

\* The program, with write also called with an empty buf, which io::copy
\* never does.
WriteApiSpec == Init /\ [][NextWriteApi]_vars

\* ---------------------------------------------------------------- scheduling
\* The steps a started thread takes by itself: the operating system runs
\* every thread that can run. What the environment decides (what stdin and
\* the files deliver, which connections arrive, a destination's failure, a
\* spurious wake-up) is not promised.
ConsumerStep(c) ==
    \/ ReadEntry(c)
    \/ ReadLock(c)
    \/ ReadCheck(c)
    \/ Wait(c)
    \/ DestWrite(c)
    \/ CopyEnd(c)

ProducerStep(p) ==
    \/ Write(p)
    \/ WriteNotify(p)

StdinStep ==
    \/ StdinDone
    \/ StdinDoneNotify

MainStep ==
    \/ MainRegStdin
    \/ MainSpawnStdin
    \/ MainRegFile
    \/ MainSpawnFile
    \/ MainTee

FairSpec ==
    /\ Spec
    /\ WF_vars(MainStep)
    /\ WF_vars(StdinStep)
    /\ \A p \in Producers : WF_vars(ProducerStep(p))
    /\ \A c \in Consumers : WF_vars(ConsumerStep(c))

\* ---------------------------------------------------------------- claims
\* The first n bytes of the buffer.
Prefix(n) == SubSeq(buffer, 1, n)

\* read, called with a non-empty destination, has returned zero bytes to c.
Eos(c) == want[c] > 0 /\ ((cpc[c] = "ret" /\ res[c] = 0) \/ cpc[c] = "done")

\* Every registered producer has reported done and the last wake-all of the
\* stdin producer has been issued.
Completed == complete = 0 /\ ppc[Stdin] = "done" /\ mainPc = "accept"

\* C1. No lost wake: a consumer blocked on the Readiness Signal while the
\* buffer holds bytes it has not read is only ever in that state for the
\* moment between a producer's append and that producer's notify_all; it is
\* never blocked with unread bytes and no wake-up for them still to come.
C1_NoLostWake ==
    \A c \in Consumers :
        (cpc[c] = "blocked" /\ read_pos[c] < Len(buffer))
            => \E p \in Producers : ppc[p] = "notify"

\* C2. Completion is eventually observed: once every producer has reported
\* done and the final wake-all was issued, every started consumer ends, by
\* end-of-stream or, when its destination fails, by that failure.
C2_CompletionObserved ==
    \A c \in Consumers :
        (Completed /\ Born(c)) ~> (cpc[c] \in {"done", "panicked"})

\* C3. End-of-stream is never premature: in every state in which read has
\* returned zero bytes to a consumer's non-empty destination, then or
\* earlier, the counter is zero, the consumer's cursor is the buffer's length
\* and its destination holds the whole buffer: nothing was appended since.
C3_EosNotPremature ==
    \A c \in Consumers :
        Eos(c) => /\ complete = 0
                  /\ read_pos[c] = Len(buffer)
                  /\ out[c] = buffer

\* C3 witness: a consumer reached end-of-stream after receiving every byte.
C3_Witness ==
    \E c \in Consumers : cpc[c] = "done" /\ want[c] > 0 /\ Len(out[c]) >= 2

\* C4. In-order delivery: what a consumer has received so far (the bytes
\* on its destination followed by those read returned and not yet written)
\* is the first read_pos bytes of the buffer; after a destination failure
\* what the destination took is still a prefix of the buffer.
C4_InOrder ==
    \A c \in Consumers :
        /\ cpc[c] # "panicked" => out[c] \o rbuf[c] = Prefix(read_pos[c])
        /\ out[c] = Prefix(Len(out[c]))

\* C4 witness: two consumers at different cursors, the one ahead with bytes
\* in hand that read has just returned.
C4_Witness ==
    \E c, d \in Consumers :
        /\ cpc[c] = "ret" /\ res[c] > 0 /\ read_pos[c] >= 2
        /\ Born(d) /\ read_pos[d] < read_pos[c]

\* The consumer whose handle was cloned last.
Latest == IF conns > 0 THEN conns ELSE Tee

C6_LateJoinerParity ==
    \A c, d \in Consumers :
        (c # d /\ Completed /\ Born(c) /\ Born(d))
            ~> \/ out[c] = buffer /\ out[d] = buffer
               \/ cpc[c] = "panicked"
               \/ cpc[d] = "panicked"

\* Producers that have registered (lines 95, 110).
RegisteredSet ==
    (IF mainPc = "reg_stdin" THEN {} ELSE {Stdin})
        \cup {f \in Files : f <= inputIdx \/ (f = inputIdx + 1 /\ mainPc = "spawn_file")}

\* Producers that have reported done (line 99).
DoneSet == {p \in Producers : ppc[p] \in {"fin_notify", "done"}}

\* C7. Completion with multiple producers: the counter is the number of
\* producers registered and not done, never negative, and it is zero exactly
\* when every registered producer has reported done.
C7_CounterExact ==
    /\ complete = Cardinality(RegisteredSet \ DoneSet)
    /\ complete >= 0
    /\ complete = 0 <=> RegisteredSet \subseteq DoneSet

\* C7 witness: the stdin producer is done, a file producer is registered,
\* and the buffer is not complete.
C7_Witness ==
    /\ ppc[Stdin] = "done"
    /\ RegisteredSet = {Stdin, 1}
    /\ complete = 1

\* C8. Zero-length read no-op: a read called with an empty destination
\* never takes the lock or waits, returns zero, and leaves the cursor alone.
C8_ZeroReadNoop ==
    /\ [](\A c \in Consumers :
            want[c] = 0 => /\ cpc[c] \in {"entry", "ret"}
                           /\ c \notin rdLock
                           /\ res[c] = 0)
    /\ [][\A c \in Consumers : want[c] = 0 => read_pos'[c] = read_pos[c]]_vars

\* C8 witness: a zero-length read has returned while the buffer is not
\* complete and the handle has nothing unread.
C8_Witness ==
    \E c \in Consumers :
        /\ want[c] = 0
        /\ cpc[c] = "ret"
        /\ complete > 0
        /\ read_pos[c] = Len(buffer)
        /\ Len(buffer) > 0

C10_NoBackpressure ==
    /\ \A c \in Consumers : c \in rdLock => (cpc[c] = "check" /\ ENABLED ReadCheck(c))
    /\ \A p \in Producers : (ppc[p] = "write" /\ rdLock = {}) => ENABLED Write(p)

\* C10 witness: an append is pending while one consumer is blocked on the
\* signal, behind another that is busy writing to its destination.
C10_Witness ==
    \E p \in Producers, c, d \in Consumers :
        /\ ppc[p] = "write"
        /\ cpc[c] = "blocked"
        /\ cpc[d] = "ret"
        /\ res[d] > 0
        /\ read_pos[c] < read_pos[d]
        /\ rdLock = {}

\* Producers the command line configures: stdin and one per --input.
Configured == {Stdin} \cup (1..nInputs)

\* C11. Registration precedes any completion: whenever some producer has
\* reported done (decremented the counter), every configured producer, stdin
\* and each --input file producer, has already registered.
C11_RegisteredBeforeDone ==
    DoneSet # {} => RegisteredSet = Configured

\* C12. File-tail producers never report done: with at least one --input,
\* the counter is above zero whenever a consumer exists, whatever stdin has
\* done and whenever it did it, and read never returns zero bytes to a
\* consumer's non-empty destination.
C12_NoEosWithFiles ==
    nInputs >= 1 =>
        \A c \in Consumers :
            Born(c) => (complete > 0 /\ ~Eos(c) /\ cpc[c] # "done")

\* C12 witness: an --input is configured, the stdin producer has reported
\* done, the file producer sits at the end of its file, and a consumer that
\* has every byte waits on the signal.
C12_Witness ==
    /\ nInputs >= 1
    /\ ppc[Stdin] = "done"
    /\ ppc[1] = "wait_modify"
    /\ Len(buffer) >= 1
    /\ \E c \in Consumers : cpc[c] = "blocked" /\ out[c] = buffer

\* The stdin producer has run fetch_sub (line 99).
StdinReported == ppc[Stdin] \in {"fin_notify", "done"}

\* C13. Stdin-only completion is set exactly once: with no --input, from
\* the registration of stdin on the counter is 1 until the stdin producer
\* reports done and 0 from then on; the only step that changes it is that
\* report, at most once; once it is 0 it stays 0 and the buffer no longer
\* changes.
C13_StdinOnlyOnce ==
    /\ []((nInputs = 0 /\ mainPc # "reg_stdin")
            => complete = IF StdinReported THEN 0 ELSE 1)
    /\ [][(nInputs = 0 /\ mainPc # "reg_stdin")
            => /\ complete' # complete
                   => (complete = 1 /\ complete' = 0 /\ ppc[Stdin] = "sub")
               /\ complete = 0 => (complete' = 0 /\ buffer' = buffer)]_vars

\* C13 witness: no --input, stdin delivered two bytes and reported done, and
\* a consumer has been started.
C13_Witness ==
    /\ nInputs = 0
    /\ complete = 0
    /\ ppc[Stdin] = "done"
    /\ Len(buffer) >= 2
    /\ \E c \in Consumers : Born(c)

\* C14. Append-only buffer: no step shortens the buffer or changes a byte
\* already in it; the only step that changes it is a producer's write, which
\* puts that producer's chunk at the end; read, clone, registration and
\* completion leave it as it is.
C14_AppendOnly ==
    [][/\ Len(buffer') >= Len(buffer)
       /\ SubSeq(buffer', 1, Len(buffer)) = buffer
       /\ buffer' # buffer
            => \E p \in Producers :
                 /\ ppc[p] = "write"
                 /\ ppc'[p] = "notify"
                 /\ buffer' = buffer \o chunk[p]]_vars

\* C14 witness: bytes of the stdin producer and of a file producer are both
\* in the buffer and a consumer has read some of them.
C14_Witness ==
    /\ \E i, j \in DOMAIN buffer : buffer[i] < 10 /\ buffer[j] > 10
    /\ \E c \in Consumers : read_pos[c] > 0

\* C15. Cursor invariants: every handle's cursor is between 0 and the
\* buffer's length (so len - read_pos at line 67 never underflows), is 0
\* when the handle is created, never decreases, and is changed only by the
\* returning read of its own handle, which leaves every other cursor alone.
C15_Cursor ==
    /\ [](\A c \in Consumers :
            /\ read_pos[c] >= 0
            /\ read_pos[c] <= Len(buffer)
            /\ Len(buffer) - read_pos[c] \in Nat)
    /\ [][\A c \in Consumers :
            /\ (~Born(c) /\ Born(c)') => read_pos'[c] = 0
            /\ read_pos'[c] >= read_pos[c]
            /\ read_pos'[c] # read_pos[c]
                 => /\ cpc[c] = "check"
                    /\ cpc'[c] = "ret"
                    /\ \A d \in Consumers \ {c} : read_pos'[d] = read_pos[d]]_vars

\* C15 witness: two handles with different cursors past 0, one of them at
\* the end of the buffer.
C15_Witness ==
    \E c, d \in Consumers :
        /\ read_pos[c] = Len(buffer)
        /\ 0 < read_pos[d]
        /\ read_pos[d] < read_pos[c]

\* Bytes of the buffer handle c has not read.
Available(c) == Len(buffer) - read_pos[c]

C17_WakeAll ==
    [][/\ \A p \in Producers :
            /\ (ppc[p] \in {"notify", "fin_notify"} /\ ppc'[p] # ppc[p])
                 => \A c \in Consumers : cpc[c] = "blocked" => cpc'[c] = "lock"
            /\ (ppc[p] = "write" /\ ppc'[p] # "write")
                 => IF Len(buffer') > Len(buffer)
                    THEN ppc'[p] = "notify"
                    ELSE ppc'[p] = "read" /\ cpc' = cpc
            /\ (ppc[p] = "sub" /\ ppc'[p] # "sub") => ppc'[p] = "fin_notify"
       /\ \A c \in Consumers :
            /\ (cpc[c] \in {"blocked", "lock"} /\ cpc'[c] # cpc[c])
                 => /\ cpc'[c] = IF cpc[c] = "blocked" THEN "lock" ELSE "check"
                    /\ UNCHANGED <<read_pos[c], res[c], rbuf[c], out[c]>>
            /\ (cpc[c] = "check" /\ cpc'[c] # "check"
                  /\ read_pos[c] = Len(buffer) /\ complete > 0)
                 => /\ cpc'[c] = "wait"
                    /\ UNCHANGED <<read_pos[c], res[c], rbuf[c], out[c]>>]_vars

\* C17 witness: two consumers that were blocked have both been woken and
\* are about to take the read guard, with a byte in the buffer that neither
\* has read, appended by a producer that is back in its copy loop.
C17_Witness ==
    \E c, d \in Consumers :
        /\ c # d
        /\ cpc[c] = "lock"
        /\ cpc[d] = "lock"
        /\ read_pos[c] < Len(buffer)
        /\ read_pos[d] < Len(buffer)
        /\ \A p \in Producers : ppc[p] \notin {"notify", "fin_notify"}

\* C18. Producer failure leaves completion unreachable: the step in which
\* a producer's thread ends on an I/O error changes neither the counter nor
\* the buffer and wakes nobody, and the thread takes no step afterwards;
\* while a producer has ended that way the counter is above zero and no
\* consumer has been given end-of-stream; and a consumer with unread bytes
\* still gets them from read.
C18_FailureNoCompletion ==
    /\ []((\E p \in Producers : ppc[p] = "panicked")
            => /\ complete > 0
               /\ \A c \in Consumers :
                    /\ ~Eos(c)
                    /\ cpc[c] # "done"
                    /\ (cpc[c] = "check" /\ Available(c) > 0) => ENABLED ReadCheck(c))
    /\ [][\A p \in Producers :
            /\ (ppc[p] # "panicked" /\ ppc'[p] = "panicked")
                 => UNCHANGED <<buffer, complete, rdLock, chunk, srcPos, consVars>>
            /\ ppc[p] = "panicked"
                 => /\ ppc'[p] = "panicked"
                    /\ \A c \in Consumers :
                         (cpc[c] = "check" /\ Available(c) > 0 /\ cpc'[c] # "check")
                             => (cpc'[c] = "ret" /\ res'[c] > 0)]_vars

\* C18 witness: the stdin producer has ended on a read error after it
\* delivered a byte, and a consumer that has received every byte is blocked
\* on the signal.
C18_Witness ==
    /\ ppc[Stdin] = "panicked"
    /\ Len(buffer) >= 1
    /\ \E c \in Consumers : cpc[c] = "blocked" /\ out[c] = buffer

\* C19. Event-driven file producer waits for its own file: a file producer
\* whose target did not exist at start is never at the open of the target
\* without having seen a "file created" event that names the target.
C19_OpenOnlyAfterNamed ==
    \A f \in Files : ppc[f] # "open_unseen"

====
